---- MODULE Spec2Model ----
(***************************************************************************)
(* Model of the gdax-bookmap websocket client: the feed session            *)
(* (Client.Run / Client.run / Client.Connect), the per-message sequence    *)
(* check, SyncBook, HandleMessage and the WriteSync / WriteDiff            *)
(* checkpoints.  The order book (orderbook.Book) and the batch writer      *)
(* (util.BookBatchWrite) are not part of the sources at hand; they are     *)
(* modelled from their documented contract.                                *)
(***************************************************************************)
EXTENDS Integers, Sequences, FiniteSets, TLC

(* ------------------------------------------------------------------ *)
(* Bounds                                                              *)
(* ------------------------------------------------------------------ *)
\* largest header sequence number a frame carries
MaxSeq == 5
\* number of frames read over the life of the process
MaxFrames == 4

(* ------------------------------------------------------------------ *)
(* Value sets                                                          *)
(* ------------------------------------------------------------------ *)
\* products handed to New(); every one goes through AddProduct
Products == {"P1", "P2"}
OrderIds == {"A", "B"}
Sides == {"buy", "sell"}
Prices == {10}
Sizes == {1, 2}
\* what the clock says at an applied message: neither interval elapsed, the
\* diff interval elapsed, or the sync interval elapsed (then both did)
Elapsed == {"short", "diff", "sync"}

EmptyFn == [x \in {} |-> 0]

NoTrade == [price |-> 0, size |-> 0, side |-> "none", maker |-> "none", change |-> FALSE]

(* ------------------------------------------------------------------ *)
(* orderbook.Book                                                      *)
(* ------------------------------------------------------------------ *)
\* orderbook.New(name): an empty, never synced book
NewBook ==
  [Sequence |-> 0, OrderMap |-> EmptyFn, Bid |-> EmptyFn, Ask |-> EmptyFn,
   Trades |-> <<>>, Diff |-> [Bid |-> {}, Ask |-> {}]]

\* a ladder with `size` added at `price`
LevelAdd(ladder, price, size) ==
  IF price \in DOMAIN ladder
  THEN [ladder EXCEPT ![price] = @ + size]
  ELSE [p \in DOMAIN ladder \cup {price} |-> IF p = price THEN size ELSE ladder[p]]

\* a ladder with `size` taken from `price`; a level that reaches zero is dropped
LevelSub(ladder, price, size) ==
  IF price \notin DOMAIN ladder THEN ladder
  ELSE IF ladder[price] - size <= 0
       THEN [p \in DOMAIN ladder \ {price} |-> ladder[p]]
       ELSE [ladder EXCEPT ![price] = @ - size]

\* Book.Add: insert a new order; an id already present is ignored
BookAdd(b, o) ==
  IF o.id \in DOMAIN b.OrderMap THEN b
  ELSE LET om == [i \in DOMAIN b.OrderMap \cup {o.id} |->
                    IF i = o.id THEN [side |-> o.side, price |-> o.price, size |-> o.size]
                    ELSE b.OrderMap[i]]
       IN IF o.side = "buy"
          THEN [b EXCEPT !.OrderMap = om, !.Bid = LevelAdd(b.Bid, o.price, o.size)]
          ELSE [b EXCEPT !.OrderMap = om, !.Ask = LevelAdd(b.Ask, o.price, o.size)]

\* Book.Remove: delete the order and update its level; unknown id is a no-op
BookRemove(b, id) ==
  IF id \notin DOMAIN b.OrderMap THEN b
  ELSE LET o == b.OrderMap[id]
           om == [i \in DOMAIN b.OrderMap \ {id} |-> b.OrderMap[i]]
       IN IF o.side = "buy"
          THEN [b EXCEPT !.OrderMap = om, !.Bid = LevelSub(b.Bid, o.price, o.size)]
          ELSE [b EXCEPT !.OrderMap = om, !.Ask = LevelSub(b.Ask, o.price, o.size)]

\* Book.Match: reduce the maker order by the event's size (deleting it when it
\* reaches zero), append a Trade built from the event, record the touched
\* level in the pending diff; a missing maker order is a no-op
BookMatch(b, ev, isChange) ==
  IF ev.maker \notin DOMAIN b.OrderMap THEN b
  ELSE LET o == b.OrderMap[ev.maker]
           gone == o.size - ev.size <= 0
           taken == IF gone THEN o.size ELSE ev.size
           om == IF gone
                 THEN [i \in DOMAIN b.OrderMap \ {ev.maker} |-> b.OrderMap[i]]
                 ELSE [b.OrderMap EXCEPT ![ev.maker].size = @ - ev.size]
           tr == [price |-> ev.price, size |-> ev.size, side |-> ev.side,
                  maker |-> ev.maker, change |-> isChange]
       IN IF o.side = "buy"
          THEN [b EXCEPT !.OrderMap = om, !.Bid = LevelSub(b.Bid, o.price, taken),
                         !.Trades = Append(@, tr), !.Diff.Bid = @ \cup {o.price}]
          ELSE [b EXCEPT !.OrderMap = om, !.Ask = LevelSub(b.Ask, o.price, taken),
                         !.Trades = Append(@, tr), !.Diff.Ask = @ \cup {o.price}]

\* Book.Clear: empties bids, asks and the order index
BookClear(b) == [b EXCEPT !.OrderMap = EmptyFn, !.Bid = EmptyFn, !.Ask = EmptyFn]

\* Book.ResetDiff: drops the pending depth deltas
BookResetDiff(b) == [b EXCEPT !.Diff = [Bid |-> {}, Ask |-> {}]]

(* ------------------------------------------------------------------ *)
(* util.BookBatchWrite and the store                                   *)
(* ------------------------------------------------------------------ *)
\* AddProduct: &util.BookBatchWrite{Count: 0, Batch: ...}; LastDiffSeq is zero
NewBatch == [Count |-> 0, LastDiffSeq |-> 0]

\* a stored record; every kind carries the same fields
Rec(kind, raw, start, end, trade, ids) ==
  [kind |-> kind, raw |-> raw, start |-> start, end |-> end, trade |-> trade, ids |-> ids]

PackTrade(trade) == Rec("trade", FALSE, 0, 0, trade, {})
PackDiff(first, last_, diff) == Rec("diff", FALSE, first, last_, NoTrade, diff.Bid \cup diff.Ask)
PackSync(b) == Rec("sync", FALSE, b.Sequence, b.Sequence, NoTrade, DOMAIN b.OrderMap)

\* batch.Write(db, now, key, pkt): the record goes to the product's bucket
BatchWrite(w, pkt) ==
  [w EXCEPT !.batch.Count = @ + 1, !.store = Append(@, pkt)]

\* batch.NextSync(now) / batch.NextDiff(now): has the interval elapsed
NextSync(el) == el = "sync"
NextDiff(el) == el \in {"diff", "sync"}

\* WriteDiff that leaves LastDiffSeq where it was
WriteDiffKeepsStart(w) ==
  IF w.book.Diff.Bid # {} \/ w.book.Diff.Ask # {}
  THEN LET w1 == BatchWrite(w, PackDiff(w.batch.LastDiffSeq, w.book.Sequence, w.book.Diff))
       IN [w1 EXCEPT !.book = BookResetDiff(@)]
  ELSE w

\* Client.WriteDiff
WriteDiff(w) ==
  IF w.book.Diff.Bid # {} \/ w.book.Diff.Ask # {}
  THEN LET w1 == BatchWrite(w, PackDiff(w.batch.LastDiffSeq, w.book.Sequence, w.book.Diff))
       IN [w1 EXCEPT !.book = BookResetDiff(@), !.batch.LastDiffSeq = w.book.Sequence + 1]
  ELSE w

\* Client.WriteSync
WriteSync(w) ==
  LET w1 == BatchWrite(w, PackSync(w.book))
  IN [w1 EXCEPT !.book = BookResetDiff(@), !.batch.LastDiffSeq = w.book.Sequence + 1]

(* ------------------------------------------------------------------ *)
(* SyncBook                                                            *)
(* ------------------------------------------------------------------ *)
NoOrder == [id |-> "none", side |-> "none", price |-> 0, size |-> 0]

\* one [price, size, id] entry of a level-3 snapshot
Entry(price, size, id) == [price |-> price, size |-> size, id |-> id]

\* the outcomes of FetchRawBook: an error (HTTP, read or JSON decode), a JSON
\* object without a "sequence" key, or a snapshot
FetchError == [err |-> TRUE, hasSeq |-> FALSE, sequence |-> 0, bids |-> <<>>, asks |-> <<>>]
FetchNoSequence == [err |-> FALSE, hasSeq |-> FALSE, sequence |-> 0, bids |-> <<>>, asks |-> <<>>]
Snapshot(seq, bids, asks) ==
  [err |-> FALSE, hasSeq |-> TRUE, sequence |-> seq, bids |-> bids, asks |-> asks]

\* sequence numbers a snapshot can carry; the REST snapshot may lag the feed
SnapSeqs == {1, 2}
SnapBooks ==
  { [bids |-> <<Entry(10, 2, "A")>>, asks |-> <<Entry(11, 1, "B")>>],
    [bids |-> <<Entry(10, 2, "A"), Entry(10, 1, "B")>>, asks |-> <<>>] }
Snapshots == { Snapshot(q, sb.bids, sb.asks) : q \in SnapSeqs, sb \in SnapBooks }
FetchResults == {FetchError, FetchNoSequence} \cup Snapshots

\* the orders a snapshot lists, as the order index holds them
SnapOrders(full) ==
  LET ids == { full.bids[i].id : i \in DOMAIN full.bids }
             \cup { full.asks[i].id : i \in DOMAIN full.asks }
      ent(id) == IF \E i \in DOMAIN full.bids : full.bids[i].id = id
                 THEN LET i == CHOOSE i \in DOMAIN full.bids : full.bids[i].id = id
                      IN [side |-> "buy", price |-> full.bids[i].price, size |-> full.bids[i].size]
                 ELSE LET i == CHOOSE i \in DOMAIN full.asks : full.asks[i].id = id
                      IN [side |-> "sell", price |-> full.asks[i].price, size |-> full.asks[i].size]
  IN [id \in ids |-> ent(id)]

\* client.WriteDB(book, full): the raw snapshot, tagged "sync", goes to the
\* product's bucket when a database is attached
WriteDB(w, full, db) ==
  IF db
  THEN [w EXCEPT !.store = Append(@, Rec("sync", TRUE, full.sequence, full.sequence, NoTrade,
                                          DOMAIN SnapOrders(full)))]
  ELSE w

\* the Adds of one side: for i := len(list) - 1; i >= 0; i--
AddSteps(list, side) ==
  [k \in 1..Len(list) |->
     LET e == list[Len(list) + 1 - k]
     IN [op |-> "Add", order |-> [id |-> e.id, side |-> side, price |-> e.price, size |-> e.size]]]

\* SyncBook with the store write moved behind the loading of the book
SyncStepsPersistLast(full) ==
  <<[op |-> "Clear", order |-> NoOrder], [op |-> "SetSequence", order |-> NoOrder]>>
  \o AddSteps(full.bids, "buy") \o AddSteps(full.asks, "sell")
  \o <<[op |-> "WriteDB", order |-> NoOrder]>>

\* the statements of SyncBook after the fetch, in program order
SyncSteps(full) ==
  <<[op |-> "WriteDB", order |-> NoOrder],
    [op |-> "Clear", order |-> NoOrder],
    [op |-> "SetSequence", order |-> NoOrder]>>
  \o AddSteps(full.bids, "buy") \o AddSteps(full.asks, "sell")

\* SyncBook that adds the snapshot's sequence to the book's
SyncStepAddsSequence(w, step, full, db) ==
  LET w1 == CASE step.op = "WriteDB" -> WriteDB(w, full, db)
              [] step.op = "Clear" -> [w EXCEPT !.book = BookClear(@)]
              [] step.op = "SetSequence" -> [w EXCEPT !.book.Sequence = @ + full.sequence]
              [] OTHER -> [w EXCEPT !.book = BookAdd(@, step.order)]
  IN [w1 EXCEPT !.log = Append(@, [op |-> step.op, stored |-> Len(w.store)])]

\* SyncBook whose Clear empties the order index but leaves the ladders
SyncStepClearsIndexOnly(w, step, full, db) ==
  LET w1 == CASE step.op = "WriteDB" -> WriteDB(w, full, db)
              [] step.op = "Clear" -> [w EXCEPT !.book.OrderMap = EmptyFn]
              [] step.op = "SetSequence" -> [w EXCEPT !.book.Sequence = full.sequence]
              [] OTHER -> [w EXCEPT !.book = BookAdd(@, step.order)]
  IN [w1 EXCEPT !.log = Append(@, [op |-> step.op, stored |-> Len(w.store)])]

\* one statement of SyncBook
SyncStep(w, step, full, db) ==
  LET w1 == CASE step.op = "WriteDB" -> WriteDB(w, full, db)
              [] step.op = "Clear" -> [w EXCEPT !.book = BookClear(@)]
              [] step.op = "SetSequence" -> [w EXCEPT !.book.Sequence = full.sequence]
              [] OTHER -> [w EXCEPT !.book = BookAdd(@, step.order)]
  IN [w1 EXCEPT !.log = Append(@, [op |-> step.op, stored |-> Len(w.store)])]

RECURSIVE RunSteps(_, _, _, _)
RunSteps(w, steps, full, db) ==
  IF steps = <<>> THEN w
  ELSE RunSteps(SyncStep(w, Head(steps), full, db), Tail(steps), full, db)

\* SyncBook that zeroes the sequence when the fetch fails
SyncBookDropsSequenceOnError(w, full, db) ==
  IF full.err THEN [w EXCEPT !.book.Sequence = 0]
  ELSE IF ~full.hasSeq THEN w
  ELSE RunSteps(w, SyncSteps(full), full, db)

\* SyncBook(book, client): fetch error -> return err, nothing touched;
\* no "sequence" key -> nothing touched; else persist, clear, load
SyncBook(w, full, db) ==
  IF full.err THEN w
  ELSE IF ~full.hasSeq THEN w
  ELSE RunSteps(w, SyncSteps(full), full, db)

(* ------------------------------------------------------------------ *)
(* HandleMessage                                                       *)
(* ------------------------------------------------------------------ *)
\* a feed message: the header (type, sequence, product_id) and the payload
\* fields the handlers read (order_id doubles as maker_order_id; size is
\* remaining_size for open, size for match, old_size - new_size for change)
Msg(type, seq, product, id, side, price, size) ==
  [type |-> type, sequence |-> seq, product_id |-> product,
   order_id |-> id, side |-> side, price |-> price, size |-> size]

\* the value of a payload field that is missing, or is not a JSON string
Absent == "absent"

\* data["..."].(string) on every field the case reads: the assertion panics
\* when the field is missing or of another type
FieldsOK(m) == m.order_id # Absent /\ m.side # Absent

MatchEvent(m) ==
  [size |-> m.size, price |-> m.price, side |-> m.side, maker |-> m.order_id]

\* the switch on header.Type: the book afterwards, the trade picked up for the
\* store (NoTrade for nil) and whether the case panicked: on a type assertion,
\* or at the end of the match case on the index -1 of an empty trade log
ApplyType(b, m) ==
  CASE m.type \in {"open", "done", "match", "change"} /\ ~FieldsOK(m) ->
         [book |-> b, trade |-> NoTrade, panic |-> TRUE]
    [] m.type = "open" ->
         [book |-> BookAdd(b, [id |-> m.order_id, side |-> m.side, price |-> m.price,
                               size |-> m.size]),
          trade |-> NoTrade, panic |-> FALSE]
    [] m.type = "done" ->
         [book |-> BookRemove(b, m.order_id), trade |-> NoTrade, panic |-> FALSE]
    [] m.type = "match" ->
         LET b1 == BookMatch(b, MatchEvent(m), FALSE)
         IN IF Len(b1.Trades) = 0
            THEN [book |-> b1, trade |-> NoTrade, panic |-> TRUE]
            ELSE [book |-> b1, trade |-> b1.Trades[Len(b1.Trades)], panic |-> FALSE]
    [] m.type = "change" ->
         IF m.order_id \notin DOMAIN b.OrderMap
         THEN [book |-> b, trade |-> NoTrade, panic |-> FALSE]
         ELSE [book |-> BookMatch(b, MatchEvent(m), TRUE), trade |-> NoTrade, panic |-> FALSE]
    [] OTHER -> [book |-> b, trade |-> NoTrade, panic |-> FALSE]

\* the tail of HandleMessage with both checkpoints tried, the diff first
PersistDiffThenSync(w, trade, el, db) ==
  IF ~db THEN w
  ELSE LET w1 == IF trade # NoTrade THEN BatchWrite(w, PackTrade(trade)) ELSE w
           w2 == IF NextDiff(el) THEN WriteDiff(w1) ELSE w1
       IN IF NextSync(el) THEN WriteSync(w2) ELSE w2

\* the tail of HandleMessage: if c.dbEnabled { trade; NextSync / NextDiff }
Persist(w, trade, el, db) ==
  IF ~db THEN w
  ELSE LET w1 == IF trade # NoTrade THEN BatchWrite(w, PackTrade(trade)) ELSE w
       IN IF NextSync(el) THEN WriteSync(w1)
          ELSE IF NextDiff(el) THEN WriteDiff(w1)
          ELSE w1

\* Client.HandleMessage
HandleMessage(w, m, el, db) ==
  LET r == ApplyType(w.book, m)
      w1 == [w EXCEPT !.book = r.book, !.log = Append(@, [op |-> "HandleMessage", stored |-> Len(w.store)])]
  IN IF r.panic THEN [w1 EXCEPT !.panic = TRUE]
     ELSE Persist(w1, r.trade, el, db)

(* ------------------------------------------------------------------ *)
(* Client.run: the sequence check of the read loop                      *)
(* ------------------------------------------------------------------ *)
\* the sequence check without the test for a lost message
DispatchNoGapCheck(seq, hseq) ==
  IF seq = 0 THEN "sync"
  ELSE IF hseq <= seq THEN "ignore"
  ELSE "apply"

\* the sequence check without the test for a book that was never synced
DispatchNoZeroCheck(seq, hseq) ==
  IF hseq <= seq THEN "ignore"
  ELSE IF hseq # seq + 1 THEN "sync"
  ELSE "apply"

\* the sequence check with < for <= in the test for old messages
DispatchStrictStale(seq, hseq) ==
  IF seq = 0 THEN "sync"
  ELSE IF hseq < seq THEN "ignore"
  ELSE IF hseq # seq + 1 THEN "sync"
  ELSE "apply"

\* what the read loop does with a message of header sequence hseq for a book
\* at sequence seq
Dispatch(seq, hseq) ==
  IF seq = 0 THEN "sync"
  ELSE IF hseq <= seq THEN "ignore"
  ELSE IF hseq # seq + 1 THEN "sync"
  ELSE "apply"

\* the read loop without the continue after the resync of a lost message
ProcessGapFallsThrough(w, m, full, el, db) ==
  LET d == Dispatch(w.book.Sequence, m.sequence)
  IN CASE d = "sync" ->
            LET w1 == SyncBook([w EXCEPT !.log = Append(@, [op |-> "SyncBook", stored |-> Len(w.store)])],
                               full, db)
            IN IF w.book.Sequence = 0 THEN w1
               ELSE HandleMessage([w1 EXCEPT !.book.Sequence = m.sequence], m, el, db)
       [] d = "ignore" -> w
       [] OTHER -> HandleMessage([w EXCEPT !.book.Sequence = m.sequence], m, el, db)

\* the body of the read loop for a message of a known product
Process(w, m, full, el, db) ==
  LET d == Dispatch(w.book.Sequence, m.sequence)
  IN CASE d = "sync" ->
            SyncBook([w EXCEPT !.log = Append(@, [op |-> "SyncBook", stored |-> Len(w.store)])],
                     full, db)
       [] d = "ignore" -> w
       [] OTHER -> HandleMessage([w EXCEPT !.book.Sequence = m.sequence], m, el, db)

(* ------------------------------------------------------------------ *)
(* Inputs                                                              *)
(* ------------------------------------------------------------------ *)
\* header sequences offered to a book at sequence seq: 0 and seq itself
\* (stale), the next one, and the one after it (a gap)
HeaderSeqs(seq) == { q \in 0..MaxSeq : q = 0 \/ (q >= seq /\ q <= seq + 2) }

\* the payloads HandleMessage can be handed, by type; the side of a match or
\* change is only copied into the Trade, so one value stands for it; the last
\* one is a done message without order_id
Bodies ==
  { Msg("received", 0, "none", "none", "none", 0, 0) }
  \cup { Msg("open", 0, "none", i, s, p, 1) : i \in OrderIds, s \in Sides, p \in Prices }
  \cup { Msg("done", 0, "none", i, "none", 0, 0) : i \in OrderIds }
  \cup { Msg("match", 0, "none", i, "sell", p, z) : i \in OrderIds, p \in Prices, z \in Sizes }
  \cup { Msg("change", 0, "none", i, "sell", p, 1) : i \in OrderIds, p \in Prices }
  \cup { Msg("done", 0, "none", Absent, "none", 0, 0) }

\* a message whose payload the loop never decodes (it is synced over or ignored)
Unread == Msg("unread", 0, "none", "none", "none", 0, 0)

(* ------------------------------------------------------------------ *)
(* State                                                               *)
(* ------------------------------------------------------------------ *)
VARIABLES
  book,        \* c.Books
  batch,       \* c.BatchWrite
  store,       \* the database: one bucket per product
  dbEnabled,   \* c.dbEnabled
  pc,          \* where Run is: "connect", "sleep", "read", "crashed"
  socket,      \* c.Socket: "nil", "open", "closed"
  subscribed,  \* the subscribe message reached the current connection
  frames,      \* frames read so far
  last         \* the frame read last and what the loop did with it

vars == <<book, batch, store, dbEnabled, pc, socket, subscribed, frames, last>>

NoFrame ==
  [frame |-> "none", product |-> "none", hseq |-> 0, prevSeq |-> 0, prevLen |-> 0,
   prevTrades |-> 0,
   full |-> FetchError, type |-> "none", el |-> "short", log |-> <<>>]

\* New(db, products)
Init ==
  /\ book = [p \in Products |-> NewBook]
  /\ batch = [p \in Products |-> NewBatch]
  /\ store = [p \in Products |-> <<>>]
  /\ dbEnabled \in BOOLEAN
  /\ pc = "connect"
  /\ socket = "nil"
  /\ subscribed = FALSE
  /\ frames = 0
  /\ last = NoFrame

(* ------------------------------------------------------------------ *)
(* Client.Run / Client.run / Client.Connect                            *)
(* ------------------------------------------------------------------ *)
\* Connect: the dial succeeds; the error of the subscribe write is dropped
ConnectOK ==
  /\ pc = "connect"
  /\ socket' = "open"
  /\ subscribed' \in BOOLEAN
  /\ pc' = "read"
  /\ UNCHANGED <<book, batch, store, dbEnabled, frames, last>>

\* Connect: the dial fails; run sleeps and returns
ConnectFail ==
  /\ pc = "connect"
  /\ pc' = "sleep"
  /\ UNCHANGED <<book, batch, store, dbEnabled, socket, subscribed, frames, last>>

\* Run without its for loop: run is called once
BackoffEndsRun ==
  /\ pc = "sleep"
  /\ pc' = "stopped"
  /\ UNCHANGED <<book, batch, store, dbEnabled, socket, subscribed, frames, last>>

\* time.Sleep(1000ms); return; Run calls run again
Backoff ==
  /\ pc = "sleep"
  /\ pc' = "connect"
  /\ UNCHANGED <<book, batch, store, dbEnabled, socket, subscribed, frames, last>>

\* ReadMessage fails: return, the deferred Close runs, Run calls run again
ReadError ==
  /\ pc = "read"
  /\ socket' = "closed"
  /\ subscribed' = FALSE
  /\ pc' = "connect"
  /\ UNCHANGED <<book, batch, store, dbEnabled, frames, last>>

\* a frame that is not a text frame, or whose header does not parse
ReadSkipped ==
  /\ pc = "read"
  /\ frames < MaxFrames
  /\ frames' = frames + 1
  /\ \E k \in {"nontext", "badheader"} : last' = [NoFrame EXCEPT !.frame = k]
  /\ UNCHANGED <<book, batch, store, dbEnabled, pc, socket, subscribed>>

\* the lookup of the book without its continue: the nil book is dereferenced
ReadUnknownProductFallsThrough ==
  /\ pc = "read"
  /\ subscribed
  /\ frames < MaxFrames
  /\ frames' = frames + 1
  /\ last' = [NoFrame EXCEPT !.frame = "unknown", !.product = "PX"]
  /\ pc' = "crashed" /\ socket' = "closed" /\ subscribed' = FALSE
  /\ UNCHANGED <<book, batch, store, dbEnabled>>

\* a message whose product_id has no book; the feed sends product messages
\* only on a connection it was subscribed on
ReadUnknownProduct ==
  /\ pc = "read"
  /\ subscribed
  /\ frames < MaxFrames
  /\ frames' = frames + 1
  /\ last' = [NoFrame EXCEPT !.frame = "unknown", !.product = "PX"]
  /\ UNCHANGED <<book, batch, store, dbEnabled, pc, socket, subscribed>>

\* the read loop with one BookBatchWrite registered for every product
ReadMessageSharedBatch ==
  /\ pc = "read"
  /\ subscribed
  /\ frames < MaxFrames
  /\ frames' = frames + 1
  /\ \E p \in Products : \E q \in HeaderSeqs(book[p].Sequence) :
       LET d == Dispatch(book[p].Sequence, q) IN
       \E body \in (IF d = "apply" THEN Bodies ELSE {Unread}) :
       \E full \in (IF d = "sync" THEN FetchResults ELSE {FetchError}) :
       \E el \in (IF d = "apply" /\ dbEnabled THEN Elapsed ELSE {"short"}) :
         LET m == [body EXCEPT !.sequence = q, !.product_id = p]
             w0 == [book |-> book[p], batch |-> batch[p], store |-> store[p],
                    log |-> <<>>, panic |-> FALSE]
             w == Process(w0, m, full, el, dbEnabled)
         IN /\ book' = [book EXCEPT ![p] = w.book]
            /\ batch' = [r \in Products |-> w.batch]
            /\ store' = [store EXCEPT ![p] = w.store]
            /\ last' = [frame |-> "msg", product |-> p, hseq |-> q,
                        prevSeq |-> book[p].Sequence, prevLen |-> Len(store[p]),
                        prevTrades |-> Len(book[p].Trades),
                        full |-> full, type |-> m.type, el |-> el, log |-> w.log]
            /\ IF w.panic
               THEN pc' = "crashed" /\ socket' = "closed" /\ subscribed' = FALSE
               ELSE UNCHANGED <<pc, socket, subscribed>>
  /\ UNCHANGED dbEnabled

\* a message of a registered product: sequence check, then sync, ignore or apply
ReadMessage ==
  /\ pc = "read"
  /\ subscribed
  /\ frames < MaxFrames
  /\ frames' = frames + 1
  /\ \E p \in Products : \E q \in HeaderSeqs(book[p].Sequence) :
       LET d == Dispatch(book[p].Sequence, q) IN
       \E body \in (IF d = "apply" THEN Bodies ELSE {Unread}) :
       \E full \in (IF d = "sync" THEN FetchResults ELSE {FetchError}) :
       \E el \in (IF d = "apply" /\ dbEnabled THEN Elapsed ELSE {"short"}) :
         LET m == [body EXCEPT !.sequence = q, !.product_id = p]
             w0 == [book |-> book[p], batch |-> batch[p], store |-> store[p],
                    log |-> <<>>, panic |-> FALSE]
             w == Process(w0, m, full, el, dbEnabled)
         IN /\ book' = [book EXCEPT ![p] = w.book]
            /\ batch' = [batch EXCEPT ![p] = w.batch]
            /\ store' = [store EXCEPT ![p] = w.store]
            /\ last' = [frame |-> "msg", product |-> p, hseq |-> q,
                        prevSeq |-> book[p].Sequence, prevLen |-> Len(store[p]),
                        prevTrades |-> Len(book[p].Trades),
                        full |-> full, type |-> m.type, el |-> el, log |-> w.log]
            /\ IF w.panic
               THEN pc' = "crashed" /\ socket' = "closed" /\ subscribed' = FALSE
               ELSE UNCHANGED <<pc, socket, subscribed>>
  /\ UNCHANGED dbEnabled

Next ==
  \/ ConnectOK
  \/ ConnectFail
  \/ Backoff
  \/ ReadError
  \/ ReadSkipped
  \/ ReadUnknownProduct
  \/ ReadMessage

Spec == Init /\ [][Next]_vars

\* a dial of the feed endpoint, whatever its outcome
Dial == ConnectOK \/ ConnectFail

\* Run under the scheduling its code has: Dial returns (with a connection or
\* with an error) and Sleep returns, and the statement after each runs; a
\* read may block for ever
LiveSpec == Init /\ [][Next]_vars /\ WF_vars(Dial) /\ WF_vars(Backoff)

(* ------------------------------------------------------------------ *)
(* Observations on the frame read last                                 *)
(* ------------------------------------------------------------------ *)
\* the number of entries of a frame's log that name op
CountOp(log, op) == Cardinality({ i \in DOMAIN log : log[i].op = op })

\* the last step read a message of a registered product
ReadMsg == last.frame = "msg"
\* HandleMessage was invoked on it
Applied == ReadMsg /\ CountOp(last.log, "HandleMessage") > 0
\* SyncBook was invoked for it
Synced == ReadMsg /\ CountOp(last.log, "SyncBook") > 0
\* the book, batch state and bucket of the product the last frame named
LastBook == book[last.product]
LastStore == store[last.product]
\* the records the last frame wrote
Written == SubSeq(LastStore, last.prevLen + 1, Len(LastStore))

(* ------------------------------------------------------------------ *)
(* C1                                                                  *)
(* ------------------------------------------------------------------ *)
\* C1: a message is applied (HandleMessage invoked) only when its header
\* sequence is book.sequence + 1 as read, and then book.sequence has grown by
\* exactly 1; stale and gapped messages are never applied.
C1_AppliedOnlyInSequence ==
  Applied => /\ last.hseq = last.prevSeq + 1
             /\ LastBook.Sequence = last.prevSeq + 1
             /\ CountOp(last.log, "HandleMessage") = 1

C1_Witness ==
  Applied /\ last.prevSeq > 0 /\ last.hseq = last.prevSeq + 1 /\ LastBook.Sequence = last.hseq

(* ------------------------------------------------------------------ *)
(* C2                                                                  *)
(* ------------------------------------------------------------------ *)
\* C2: a message read for a known product while book.sequence = 0 triggers
\* one Sync and is discarded: its body is not applied, before or after the
\* Sync, and nothing but the Sync touches the book.
C2_UnsyncedNeverApplied ==
  (ReadMsg /\ last.prevSeq = 0) =>
     /\ ~Applied
     /\ CountOp(last.log, "SyncBook") = 1
     /\ Len(LastBook.Trades) = last.prevTrades
     /\ (LastBook.Sequence # 0 => last.full.hasSeq /\ LastBook.Sequence = last.full.sequence)

C2_Witness ==
  /\ ReadMsg /\ last.prevSeq = 0 /\ last.hseq = 1
  /\ last.full.hasSeq /\ LastBook.Sequence = last.full.sequence
  /\ ~Applied

(* ------------------------------------------------------------------ *)
(* C3                                                                  *)
(* ------------------------------------------------------------------ *)
\* the last frame called SyncBook and the fetch returned an error
SyncFailed == Synced /\ last.full.err

\* a step that reads a frame
ReadStep == frames' = frames + 1

\* C3 as stated: after a failed Sync book.sequence = 0, on a cold start and
\* on a resync of an already synced book alike.
C3_FailedSyncLeavesSequenceZero ==
  SyncFailed => LastBook.Sequence = 0

\* C3, amended: a failed Sync leaves the book, the batch state and the bucket
\* exactly as they were; after a failed cold-start Sync book.sequence is still
\* 0, after a failed resync it keeps its value, and the message that
\* triggered the Sync is not applied.
C3_FailedSyncChangesNothing ==
  [][ (ReadStep /\ SyncFailed') =>
        /\ book' = book /\ batch' = batch /\ store' = store
        /\ ~Applied'
        /\ (last'.prevSeq = 0 => book'[last'.product].Sequence = 0) ]_vars

C3_Witness ==
  SyncFailed /\ last.prevSeq # 0 /\ last.hseq > last.prevSeq + 1
  /\ LastBook.Sequence = last.prevSeq /\ ~Applied

(* ------------------------------------------------------------------ *)
(* C4                                                                  *)
(* ------------------------------------------------------------------ *)
\* the last frame called SyncBook and the fetch returned a snapshot
Resynced == Synced /\ ~last.full.err /\ last.full.hasSeq

\* C4: after a resync book.sequence is the snapshot's sequence, the order
\* index holds exactly the snapshot's orders, and pending_diff is empty.
C4_ResyncConvergence ==
  Resynced => /\ LastBook.Sequence = last.full.sequence
              /\ LastBook.OrderMap = SnapOrders(last.full)
              /\ LastBook.Diff.Bid = {} /\ LastBook.Diff.Ask = {}

\* the part of C4 the code keeps: sequence and order index
C4_ResyncLoadsSnapshot ==
  Resynced => /\ LastBook.Sequence = last.full.sequence
              /\ LastBook.OrderMap = SnapOrders(last.full)

(* ------------------------------------------------------------------ *)
(* C5                                                                  *)
(* ------------------------------------------------------------------ *)
\* C5: a message read with header sequence > book.sequence + 1 on a synced
\* book makes the loop call SyncBook exactly once and drop the message: no
\* HandleMessage, the trade log and the pending diff stay as they were, and
\* the order index is either untouched (no snapshot) or the snapshot's.
C5_GapResyncsAndDiscards ==
  [][ (ReadStep /\ ReadMsg' /\ book[last'.product].Sequence # 0
         /\ last'.hseq > book[last'.product].Sequence + 1) =>
        /\ CountOp(last'.log, "SyncBook") = 1
        /\ ~Applied'
        /\ book'[last'.product].Trades = book[last'.product].Trades
        /\ book'[last'.product].Diff = book[last'.product].Diff
        /\ \/ book'[last'.product] = book[last'.product]
           \/ /\ last'.full.hasSeq
              /\ book'[last'.product].OrderMap = SnapOrders(last'.full)
              /\ book'[last'.product].Sequence = last'.full.sequence ]_vars

C5_Witness ==
  /\ ReadMsg /\ last.prevSeq # 0 /\ last.hseq > last.prevSeq + 1
  /\ CountOp(last.log, "SyncBook") = 1 /\ Resynced
  /\ last.prevTrades > 0 /\ Len(LastBook.Trades) = last.prevTrades

(* ------------------------------------------------------------------ *)
(* C6                                                                  *)
(* ------------------------------------------------------------------ *)
\* C6: a message read with header sequence <= book.sequence on a synced book
\* changes nothing: every book, every batch state and every bucket is as it
\* was, and SyncBook is not called.
C6_StaleIgnored ==
  [][ (ReadStep /\ ReadMsg' /\ book[last'.product].Sequence # 0
         /\ last'.hseq <= book[last'.product].Sequence) =>
        /\ book' = book /\ batch' = batch /\ store' = store
        /\ last'.log = <<>> ]_vars

C6_Witness ==
  /\ ReadMsg /\ last.prevSeq # 0 /\ last.hseq <= last.prevSeq
  /\ last.log = <<>> /\ LastBook.Sequence = last.prevSeq
  /\ LastBook.OrderMap # EmptyFn

(* ------------------------------------------------------------------ *)
(* C7                                                                  *)
(* ------------------------------------------------------------------ *)
\* the last frame was applied and the book's trade log grew
TradeProduced == Applied /\ Len(LastBook.Trades) > last.prevTrades

\* C7: whenever an applied message produces a Trade in the book (a match, or a
\* change taken as a match), a trade record of that Trade is written to the
\* store while that message is handled, whatever the timers say.
C7_TradeWrittenAtOnce ==
  (dbEnabled /\ TradeProduced) =>
     \E i \in DOMAIN Written :
        Written[i] = PackTrade(LastBook.Trades[Len(LastBook.Trades)])

(* ------------------------------------------------------------------ *)
(* C8                                                                  *)
(* ------------------------------------------------------------------ *)
\* C8: no diff record is written with start sequence greater than end
\* sequence.
C8_DiffRangeOrdered ==
  \A p \in Products : \A i \in DOMAIN store[p] :
     store[p][i].kind = "diff" => store[p][i].start <= store[p][i].end

(* ------------------------------------------------------------------ *)
(* C9                                                                  *)
(* ------------------------------------------------------------------ *)
DiffIdx(p) == { i \in DOMAIN store[p] : store[p][i].kind = "diff" }
\* the records that move LastDiffSeq: diffs and the snapshots WriteSync writes
CheckpointIdx(p) ==
  { i \in DOMAIN store[p] :
      store[p][i].kind = "diff" \/ (store[p][i].kind = "sync" /\ ~store[p][i].raw) }
Max(S) == CHOOSE x \in S : \A y \in S : y <= x

\* C9 as stated: every diff record after the first starts at the end of the
\* diff record before it plus 1, whatever was written between the two.
C9_DiffsContiguous ==
  \A p \in Products : \A i, j \in DiffIdx(p) :
     (i < j /\ ~\E k \in DiffIdx(p) : i < k /\ k < j) =>
        store[p][j].start = store[p][i].end + 1

\* C9, amended: a diff record starts at the end of the checkpoint written
\* before it plus 1, where a checkpoint is a diff record or a snapshot written
\* by WriteSync (0 when there is none); so two consecutive diff records are
\* contiguous when no WriteSync snapshot lies between them, a resync between
\* them notwithstanding.
C9_DiffStartsAfterLastCheckpoint ==
  \A p \in Products : \A j \in DiffIdx(p) :
     LET before == { i \in CheckpointIdx(p) : i < j }
     IN store[p][j].start = IF before = {} THEN 0 ELSE store[p][Max(before)].end + 1

C9_Witness ==
  \E p \in Products : \E i, k, j \in DOMAIN store[p] :
     /\ i < k /\ k < j
     /\ store[p][i].kind = "diff" /\ store[p][j].kind = "diff"
     /\ store[p][k].kind = "sync" /\ store[p][k].raw
     /\ ~\E c \in CheckpointIdx(p) : i < c /\ c < j
     /\ store[p][j].start = store[p][i].end + 1

(* ------------------------------------------------------------------ *)
(* C10                                                                 *)
(* ------------------------------------------------------------------ *)
Mutations == {"Clear", "SetSequence", "Add"}

\* C10: in a Sync that got a snapshot, the raw snapshot is handed to the store
\* before the book is touched: WriteDB comes before Clear, before the
\* assignment of the sequence and before every Add, and with a database
\* attached the sync record is in the bucket by the time each of them runs.
C10_PersistBeforeMutate ==
  Resynced =>
     /\ CountOp(last.log, "WriteDB") = 1
     /\ CountOp(last.log, "Clear") = 1
     /\ \A i \in DOMAIN last.log :
          last.log[i].op \in Mutations =>
             /\ \E k \in 1..(i - 1) : last.log[k].op = "WriteDB"
             /\ dbEnabled =>
                  /\ last.log[i].stored = last.prevLen + 1
                  /\ LastStore[last.prevLen + 1].kind = "sync"
                  /\ LastStore[last.prevLen + 1].raw
                  /\ LastStore[last.prevLen + 1].start = last.full.sequence

C10_Witness ==
  /\ Resynced /\ dbEnabled /\ last.prevSeq # 0
  /\ CountOp(last.log, "Add") = 2
  /\ Len(LastStore) = last.prevLen + 1

(* ------------------------------------------------------------------ *)
(* C11                                                                 *)
(* ------------------------------------------------------------------ *)
RECURSIVE SumSizes(_, _)
SumSizes(om, ids) ==
  IF ids = {} THEN 0
  ELSE LET i == CHOOSE i \in ids : TRUE IN om[i].size + SumSizes(om, ids \ {i})

\* the sizes of the live orders of book b on `side` at `price`, added up
LiveSum(b, side, price) ==
  SumSizes(b.OrderMap,
           { i \in DOMAIN b.OrderMap : b.OrderMap[i].side = side /\ b.OrderMap[i].price = price })

LadderConsistent(b, ladder, side) ==
  /\ \A pr \in DOMAIN ladder : ladder[pr] > 0 /\ ladder[pr] = LiveSum(b, side, pr)
  /\ \A i \in DOMAIN b.OrderMap :
        b.OrderMap[i].side = side => b.OrderMap[i].price \in DOMAIN ladder

C12_NoMessageStopsSession ==
  ReadMsg => pc \in {"read", "connect", "sleep"}

(* ------------------------------------------------------------------ *)
(* C13                                                                 *)
(* ------------------------------------------------------------------ *)
\* the book, batch state and bucket of the product of the last frame, as
\* SyncBook is handed them
LastWorld ==
  [book |-> LastBook, batch |-> batch[last.product], store |-> LastStore,
   log |-> <<>>, panic |-> FALSE]

\* C13: Sync is idempotent: in every state that a Sync has just produced from
\* a snapshot, a second Sync against the same snapshot leaves the book as it
\* is: sequence, order index, ladders, trade log and pending diff.
C13_SyncIdempotent ==
  Resynced => SyncBook(LastWorld, last.full, dbEnabled).book = LastBook

\* a resync of a book that carries trades and a pending diff
C13_Witness ==
  /\ Resynced /\ last.prevSeq # 0
  /\ Len(LastBook.Trades) > 0 /\ LastBook.Diff.Bid # {}
  /\ Cardinality(DOMAIN LastBook.OrderMap) = 2
  /\ LastBook.Sequence = last.full.sequence

(* ------------------------------------------------------------------ *)
(* C14                                                                 *)
(* ------------------------------------------------------------------ *)
\* C14: after every read error and every failed dial the socket that was in
\* use is closed (none is open while the session is between connections) and
\* a new dial is eventually attempted: a sleeping session comes back to the
\* dial and a session at the dial performs it, however many errors came
\* before.
C14_AlwaysRedials ==
  /\ [](pc \in {"connect", "sleep"} => socket \in {"nil", "closed"})
  /\ (pc = "sleep") ~> (pc = "connect")
  /\ (pc = "connect") ~> (pc \in {"read", "sleep"})

\* a read error followed by a failed dial
C14_Witness ==
  pc = "sleep" /\ socket = "closed" /\ frames > 0

(* ------------------------------------------------------------------ *)
(* C15                                                                 *)
(* ------------------------------------------------------------------ *)
\* C15: the session is in its read loop only on a connection on which the
\* subscribe message was sent.
C15_ReadsOnlyWhenSubscribed ==
  pc = "read" => subscribed

(* ------------------------------------------------------------------ *)
(* C16                                                                 *)
(* ------------------------------------------------------------------ *)
\* C16: reading a message whose product_id is not registered changes no book,
\* no batch state and no bucket, calls neither SyncBook nor HandleMessage, and
\* leaves the session in its read loop on the same open socket.
C16_UnknownProductDropped ==
  [][ (ReadStep /\ last'.frame = "unknown") =>
        /\ book' = book /\ batch' = batch /\ store' = store
        /\ last'.log = <<>>
        /\ pc' = "read" /\ socket' = "open" /\ socket = "open"
        /\ subscribed' = subscribed ]_vars

C16_Witness ==
  /\ last.frame = "unknown" /\ pc = "read" /\ frames >= 2
  /\ \E p \in Products : book[p].Sequence # 0 /\ store[p] # <<>>

(* ------------------------------------------------------------------ *)
(* C17                                                                 *)
(* ------------------------------------------------------------------ *)
\* the trade records the last frame wrote
WrittenTrades == SelectSeq(Written, LAMBDA r : r.kind = "trade")

\* C17: every applied match whose handler runs to its end has appended
\* exactly one Trade to the book's trade log, and with a database attached
\* the one trade record written for the message is that new Trade.
C17_MatchAppendsAndWritesNewTrade ==
  (Applied /\ last.type = "match" /\ pc # "crashed") =>
     /\ Len(LastBook.Trades) = last.prevTrades + 1
     /\ dbEnabled => WrittenTrades = <<PackTrade(LastBook.Trades[Len(LastBook.Trades)])>>

(* ------------------------------------------------------------------ *)
(* C18                                                                 *)
(* ------------------------------------------------------------------ *)
\* C18: the session comes to a dial after an error only out of the backoff
\* sleep: every step that brings it to the dial is the end of a sleep.
C18_BackoffBeforeEveryRedial ==
  [][ (pc' = "connect" /\ pc # "connect") => pc = "sleep" ]_vars

(* ------------------------------------------------------------------ *)
(* C19                                                                 *)
(* ------------------------------------------------------------------ *)
\* the checkpoint records (snapshots and diffs) the last frame wrote
Checkpoints == SelectSeq(Written, LAMBDA r : r.kind \in {"sync", "diff"})

\* C19: an applied message writes at most one checkpoint record, after its
\* trade record if any; when NextSync holds the checkpoint is a snapshot of
\* the book; otherwise it is a diff, written only when NextDiff holds and the
\* pending diff was not empty, and ending at the book's sequence; after a
\* checkpoint the pending diff is empty and LastDiffSeq is the book's sequence
\* plus 1.  A handler that runs to its end with NextSync writes the snapshot;
\* without a database nothing is written.
C19_OneCheckpointPerMessage ==
  Applied =>
     /\ Len(Checkpoints) <= 1
     /\ ~dbEnabled => Written = <<>>
     /\ (dbEnabled /\ NextSync(last.el) /\ pc # "crashed") => Len(Checkpoints) = 1
     /\ Len(Checkpoints) = 1 =>
          /\ Written[Len(Written)] = Checkpoints[1]
          /\ IF NextSync(last.el)
             THEN Checkpoints[1] = PackSync(LastBook)
             ELSE /\ Checkpoints[1].kind = "diff"
                  /\ NextDiff(last.el)
                  /\ Checkpoints[1].ids # {}
                  /\ Checkpoints[1].end = LastBook.Sequence
          /\ LastBook.Diff.Bid = {} /\ LastBook.Diff.Ask = {}
          /\ batch[last.product].LastDiffSeq = LastBook.Sequence + 1

\* a match handled when the diff interval has elapsed: trade, then diff
C19_Witness ==
  /\ Applied /\ dbEnabled /\ last.el = "diff" /\ last.type = "match"
  /\ Len(Written) = 2 /\ Written[1].kind = "trade" /\ Written[2].kind = "diff"
  /\ batch[last.product].LastDiffSeq = LastBook.Sequence + 1

(* ------------------------------------------------------------------ *)
(* C20                                                                 *)
(* ------------------------------------------------------------------ *)
\* C20: reading a message of product P, whether it is ignored, answered by a
\* resync or applied, leaves the book (sequence and pending diff included),
\* the batch state and the bucket of every other product as they were.
C20_ProductsIsolated ==
  [][ (ReadStep /\ ReadMsg') =>
        \A r \in Products \ {last'.product} :
           book'[r] = book[r] /\ batch'[r] = batch[r] /\ store'[r] = store[r] ]_vars

\* a message of one product has written to its bucket while the other product
\* holds a synced book, a moved batch state and records of its own
C20_Witness ==
  /\ Applied /\ Written # <<>>
  /\ \E r \in Products \ {last.product} :
        /\ book[r].Sequence # 0 /\ store[r] # <<>>
        /\ batch[r].LastDiffSeq # batch[last.product].LastDiffSeq

====
